---- MODULE Spec2Model ----
(***************************************************************************)
(* Model of UploadQueueService (src/src/services/UploadQueueService.ts):   *)
(* the in-memory upload queue, its processing pass, the per-job upload     *)
(* coroutine and failure handling.                                         *)
(*                                                                         *)
(* Every async method is split at its awaits.  The database methods are    *)
(* async stubs whose promises are already resolved, so the code after such *)
(* an await runs as a microtask, in the order the awaits were reached      *)
(* (microtasks, a FIFO).  The file-system and network calls of an upload   *)
(* finish later, in any order, and only when no microtask is left          *)
(* (transfers).  Caller operations may be issued at any point.             *)
(*                                                                         *)
(* Job objects live in jobs (a heap indexed by reference); uploadQueue     *)
(* holds references, as the JavaScript array does, so an upload coroutine  *)
(* keeps its job after the job has left the queue.  The fields id and      *)
(* intakeId are functions of photoId / unused by the queue, lastAttempt is *)
(* written and never read: they are left out.                              *)
(*                                                                         *)
(* The database methods store nothing yet; jobStore records, per job id,   *)
(* the row the last save/update call was given, from the moment the await  *)
(* on that call resumes (no row after a remove).  Nothing reads it back:   *)
(* getPendingJobs returns the empty list.                                  *)
(*                                                                         *)
(* The callers of subscribeToProgress are observers; progressCallbacks    *)
(* maps a photo id to the observer whose callback is stored.  What an      *)
(* observer's callback was called with is kept in received, the            *)
(* unsubscribe functions handed out in unsubscribeFns.                     *)
(***************************************************************************)
EXTENDS Integers, Sequences, FiniteSets, Bags, TLC

\* ---- bounds of the model ----
MaxJobs == 1         \* addPhotoToQueue calls in one run
MaxRetryCalls == 1   \* retryUpload calls in one run
MaxRemoveCalls == 1  \* removePhotoFromQueue calls in one run
MaxTicks == 1        \* clock steps in one run
MaxBacklog == 0      \* a caller starts a call with at most this many continuations waiting

\* the cancellation runs: no retry, no clock
CancelJobs == 4      \* addPhotoToQueue calls
CancelRemoves == 1   \* removePhotoFromQueue calls
\* the drain runs: distinct photos, every transfer succeeds
DrainBacklog == 1    \* continuations waiting when a caller calls
\* the automatic-retry runs: transfers fail a bounded number of times
AutoJobs == 2        \* addPhotoToQueue calls
AutoFailures == 3    \* transient failures of one job before its transfer succeeds
AutoTicks == 2       \* clock steps
\* the failing-transport runs: every transfer fails transiently
TransientJobs == 2     \* addPhotoToQueue calls
TransientRetries == 2  \* retryUpload calls
\* the ordering runs: jobs of different priority wait for the same pass
OrderJobs == 3      \* addPhotoToQueue calls
OrderRetries == 1   \* retryUpload calls
OrderBacklog == 1   \* continuations waiting when a caller calls
OrderTicks == 1     \* clock steps
\* the notification runs: one photo, enqueued, cancelled and retried
NotifyJobs == 2     \* addPhotoToQueue calls
NotifyRetries == 2  \* retryUpload calls
NotifyRemoves == 1  \* removePhotoFromQueue calls
\* the observer runs: one photo, two observers
ProgressJobs == 1          \* addPhotoToQueue calls
ProgressRetries == 1       \* retryUpload calls
ProgressSubscribes == 2    \* subscribeToProgress calls
ProgressUnsubscribes == 1  \* calls of an unsubscribe function
\* the start-up runs: initialize is called while the service is in use
StartupJobs == 2     \* addPhotoToQueue calls
StartupCalls == 1    \* initialize calls
StartupBacklog == 1  \* continuations waiting when a caller calls
\* the failing-store runs: distinct photos, database writes that reject
FaultJobs == 2       \* addPhotoToQueue calls
FaultWrites == 1     \* database writes that reject

\* ---- program constants ----
MAX_CONCURRENT_UPLOADS == 2
MAX_RETRY_ATTEMPTS == 5
RETRY_DELAYS == <<1000, 2000, 4000, 8000, 16000>>
PRIORITY_CAP == 10
INITIAL_PRIORITY == 1
\* the clock advances by the shortest backoff delay
TickMs == RETRY_DELAYS[1]

\* photo ids
AllPhotos == {"p1", "p2", "p3"}
TwoPhotos == {"p1", "p2"}

Undefined == -1
NoError == "none"
ErrNoRecord == "Photo record not found"
ErrEmptyFile == "Photo file is empty"
ErrHttp == "HTTP 503: Service Unavailable"
TransportErrors == {ErrEmptyFile, ErrHttp}
\* the error a database write rejects with
ErrWrite == "Database write failed"

\* the callers of subscribeToProgress, each with its own callback
Observers == {"A", "B"}
NoObserver == "nobody"

VARIABLES
  jobs,          \* heap of UploadJob objects, indexed by reference 1..Len(jobs)
  uploadQueue,   \* this.uploadQueue: sequence of job references
  activeUploads, \* this.activeUploads: set of photo ids
  isProcessing,  \* this.isProcessing
  photoStore,    \* keys of this.photoStore
  microtasks,    \* continuations waiting behind an await on a resolved promise
  transfers,     \* bag of job references whose file/network transfer is running
  now,           \* Date.now(), in ms
  jobStore,      \* per job id, the row the database methods were last given
  progressCallbacks, \* this.progressCallbacks: per photo id, whose callback is stored
  unsubscribeFns,    \* the unsubscribe functions returned so far: <<photo id, observer>>
  received,          \* per observer, the UploadProgress objects its callback was called with
  subscriber,        \* history: per photo id, the observer that subscribed last and
                     \* has not called its own unsubscribe function since
  budget         \* what the callers and the clock may still do in this run

vars == <<jobs, uploadQueue, activeUploads, isProcessing, photoStore,
          microtasks, transfers, now, jobStore, progressCallbacks,
          unsubscribeFns, received, subscriber, budget>>

Min(a, b) == IF a < b THEN a ELSE b

\* what a database method is given to write of a job
Row(job) == [status |-> job.status, attempts |-> job.attempts]
NoRow == [status |-> "none", attempts |-> 0]
\* what getPendingJobs resolves to: `return [];`
getPendingJobs == <<>>
\* the photo of a continuation that holds none
NoPhoto == "none"

\* a continuation: the code after an await, the job and photo it holds, the
\* result of getPhotoRecord, and the row handed to the awaited database call
Task(op, j, p, found, row) ==
  [op |-> op, job |-> j, photo |-> p, found |-> found, row |-> row]

\* the object literal of addPhotoToQueue; failures, lastDelay and unnotified
\* are history fields: the number of failures handled for the job, the
\* distance from the last failure to the nextRetryAt it scheduled, and
\* whether a status was written to the job for which notifyProgress has not
\* been called yet
NewJob(p) ==
  [photoId |-> p, status |-> "pending", priority |-> INITIAL_PRIORITY,
   createdAt |-> now, attempts |-> 0, maxAttempts |-> MAX_RETRY_ATTEMPTS,
   nextRetryAt |-> Undefined, lastError |-> NoError,
   failures |-> 0, lastDelay |-> Undefined, unnotified |-> FALSE]

\* job.id is `upload_${photo.id}`: two jobs have the same id iff same photoId
JobId(job) == job.photoId

\* ---- the heap ----
\* the mutable state of the service as one record
Cur ==
  [jobs |-> jobs, queue |-> uploadQueue, active |-> activeUploads,
   micro |-> microtasks, transfers |-> transfers, store |-> jobStore,
   callbacks |-> progressCallbacks, unsubs |-> unsubscribeFns,
   received |-> received, subscriber |-> subscriber]

InQueue(s, j) == \E i \in 1..Len(s.queue) : s.queue[i] = j

\* a job object is referenced by the queue, by a waiting continuation of its
\* upload or retry, or by its running transfer
Referenced(s, j) ==
  \/ InQueue(s, j)
  \/ \E i \in 1..Len(s.micro) : s.micro[i].job = j
  \/ BagIn(j, s.transfers)

\* an object nothing references can no longer be read or written: what is
\* kept of it is its identity and how it ended
Reclaimed(job) ==
  [NewJob(job.photoId) EXCEPT !.createdAt = 0, !.status = job.status,
                              !.attempts = job.attempts]

Collect(s) ==
  [j \in 1..Len(s.jobs) |->
     IF Referenced(s, j) THEN s.jobs[j] ELSE Reclaimed(s.jobs[j])]

Install(s) ==
  /\ jobs' = Collect(s)
  /\ uploadQueue' = s.queue
  /\ activeUploads' = s.active
  /\ microtasks' = s.micro
  /\ transfers' = s.transfers
  /\ jobStore' = s.store
  /\ progressCallbacks' = s.callbacks
  /\ unsubscribeFns' = s.unsubs
  /\ received' = s.received
  /\ subscriber' = s.subscriber

InitWith(b, stored) ==
  /\ jobs = <<>>
  /\ uploadQueue = <<>>
  /\ activeUploads = {}
  /\ isProcessing = FALSE
  /\ photoStore = stored
  /\ microtasks = <<>>
  /\ transfers = EmptyBag
  /\ now = 0
  /\ jobStore = [p \in AllPhotos |-> NoRow]
  /\ progressCallbacks = [p \in AllPhotos |-> NoObserver]
  /\ unsubscribeFns = {}
  /\ received = [o \in Observers |-> <<>>]
  /\ subscriber = [p \in AllPhotos |-> NoObserver]
  /\ budget = b

Init ==
  InitWith([photos |-> TwoPhotos, add |-> MaxJobs, retry |-> MaxRetryCalls,
            remove |-> MaxRemoveCalls, tick |-> MaxTicks, backlog |-> MaxBacklog], {})

Photos == budget.photos

\* the object literals given to notifyProgress
UploadProgress(p, progress, status, error) ==
  [photoId |-> p, progress |-> progress, status |-> status, error |-> error]

\* notifyProgress(photoId, progress): the callback stored for the photo id,
\* if there is one, is called
notifyProgress(s, p, progress) ==
  IF s.callbacks[p] # NoObserver
  THEN [s EXCEPT !.received[s.callbacks[p]] = Append(@, progress)]
  ELSE s

\* ---- getNextJob (filter, then a stable sort, then the first element) ----

\* the filter of getNextJob, as positions of the queue
Candidates(s) ==
  {i \in 1..Len(s.queue) :
     /\ s.jobs[s.queue[i]].status = "pending"
     /\ s.jobs[s.queue[i]].photoId \notin s.active}

\* the comparator with the priorities compared the other way round
SortsBeforeLowPriority(s, i, k) ==
  LET a == s.jobs[s.queue[i]]
      b == s.jobs[s.queue[k]]
  IN \/ a.priority < b.priority
     \/ a.priority = b.priority /\ a.createdAt < b.createdAt
     \/ a.priority = b.priority /\ a.createdAt = b.createdAt /\ i < k

\* the comparator of getNextJob's sort, made total by the stability of
\* Array.prototype.sort: position i is placed before position k
SortsBefore(s, i, k) ==
  LET a == s.jobs[s.queue[i]]
      b == s.jobs[s.queue[k]]
  IN \/ a.priority > b.priority
     \/ a.priority = b.priority /\ a.createdAt < b.createdAt
     \/ a.priority = b.priority /\ a.createdAt = b.createdAt /\ i < k

\* sortedJobs[0] || null, as a job reference (0 for null)
getNextJob(s) ==
  LET c == Candidates(s)
  IN IF c = {} THEN 0
     ELSE s.queue[CHOOSE i \in c : \A k \in c \ {i} : SortsBefore(s, i, k)]

\* ---- uploadPhoto up to its first await ----
uploadPhotoStart(s, j) ==
  LET started == [s.jobs[j] EXCEPT !.status = "uploading", !.attempts = @ + 1,
                                   !.unnotified = TRUE]
  IN [s EXCEPT !.jobs[j] = started,
               !.micro = Append(@, Task("upload.updated", j, started.photoId, FALSE,
                                        Row(started)))]

\* ---- processQueue ----
\* the while loop of processQueue
RECURSIVE ProcessLoop(_)
ProcessLoop(s) ==
  IF ~(Len(s.queue) > 0 /\ Cardinality(s.active) < MAX_CONCURRENT_UPLOADS)
  THEN s
  ELSE LET j == getNextJob(s)
       IN IF j = 0
          THEN s
          ELSE IF s.jobs[j].nextRetryAt # Undefined /\ s.jobs[j].nextRetryAt > now
          THEN s
          ELSE ProcessLoop(
                 uploadPhotoStart([s EXCEPT !.active = @ \cup {s.jobs[j].photoId}], j))

\* processQueue has no await: it runs to its end within the step that calls
\* it, and leaves isProcessing as it found it (set on entry, reset in finally)
processQueue(s, processing) ==
  IF processing THEN s ELSE ProcessLoop(s)

\* ---- handleUploadFailure up to its await ----
\* RETRY_DELAYS[Math.min(attempts - 1, length - 1)]; a negative index of a
\* JavaScript array reads undefined
RetryDelay(attempts) ==
  LET idx == Min(attempts - 1, Len(RETRY_DELAYS) - 1)
  IN IF idx < 0 THEN Undefined ELSE RETRY_DELAYS[idx + 1]

\* With an undefined delay, Date.now() + delay is NaN and toISOString()
\* throws RangeError: handleUploadFailure ends there, after status and
\* lastError were written and before anything else.
handleUploadFailureStart(s, j, msg) ==
  LET job == s.jobs[j]
      marked == [job EXCEPT !.status = "failed", !.lastError = msg,
                            !.failures = @ + 1, !.lastDelay = Undefined,
                            !.unnotified = TRUE]
      next == now + RetryDelay(job.attempts)
      updating == Task("fail.updated", j, job.photoId, FALSE, Row(marked))
  IN IF job.attempts < job.maxAttempts
     THEN IF RetryDelay(job.attempts) = Undefined
          THEN [s EXCEPT !.jobs[j] = marked]
          ELSE [s EXCEPT !.jobs[j] =
                           [marked EXCEPT !.nextRetryAt = next,
                                          !.lastDelay = next - now,
                                          !.priority = Min(@ + 1, PRIORITY_CAP)],
                         !.micro = Append(@, updating)]
     ELSE [s EXCEPT !.jobs[j] = marked,
                    !.micro = Append(@, updating)]

\* handleUploadFailure from its await to its call of processQueue: the slot
\* is released and notifyProgress is called
handleUploadFailureEnd(s, j) ==
  notifyProgress([s EXCEPT !.active = @ \ {s.jobs[j].photoId},
                           !.jobs[j].unnotified = FALSE],
                 s.jobs[j].photoId, UploadProgress(s.jobs[j].photoId, 0, "failed", s.jobs[j].lastError))

\* ---- caller operations ----

CallerMayCall == Len(microtasks) <= budget.backlog

\* storePhotoRecord(photo)
StorePhotoRecord(p) ==
  /\ CallerMayCall
  /\ p \notin photoStore
  /\ photoStore' = photoStore \cup {p}
  /\ UNCHANGED <<jobs, uploadQueue, activeUploads, isProcessing, microtasks,
                 transfers, now, jobStore, progressCallbacks, unsubscribeFns,
                 received, subscriber, budget>>

\* addPhotoToQueue(photo, intakeId) up to its await
AddPhotoToQueue(p) ==
  /\ CallerMayCall
  /\ budget.add > 0
  /\ budget' = [budget EXCEPT !.add = @ - 1]
  /\ Install([Cur EXCEPT !.jobs = Append(@, NewJob(p)),
                         !.queue = Append(@, Len(jobs) + 1),
                         !.micro = Append(@, Task("add.saved", Len(jobs) + 1, p, FALSE,
                                                   Row(NewJob(p))))])
  /\ UNCHANGED <<isProcessing, photoStore, now>>

\* removePhotoFromQueue(photoId) up to its await
RemovePhotoFromQueue(p) ==
  /\ CallerMayCall
  /\ budget.remove > 0
  /\ budget' = [budget EXCEPT !.remove = @ - 1]
  /\ Install([Cur EXCEPT !.queue = SelectSeq(@, LAMBDA j : jobs[j].photoId # p),
                         !.micro = Append(@, Task("remove.removed", 0, p, FALSE, NoRow))])
  /\ UNCHANGED <<isProcessing, photoStore, now>>

\* this.uploadQueue.find(j => j.photoId === photoId), 0 for undefined
FindJob(p) ==
  LET hits == {i \in 1..Len(uploadQueue) : jobs[uploadQueue[i]].photoId = p}
  IN IF hits = {} THEN 0
     ELSE uploadQueue[CHOOSE i \in hits : \A k \in hits : i <= k]

\* retryUpload with the attempt counter set to the budget instead of to zero
RetryResetToBudget(job) ==
  [job EXCEPT !.status = "pending", !.attempts = job.maxAttempts,
              !.nextRetryAt = Undefined]

\* retryUpload that also puts the job back to its initial priority
RetryResetPriority(job) ==
  [job EXCEPT !.status = "pending", !.attempts = 0, !.nextRetryAt = Undefined,
              !.priority = INITIAL_PRIORITY]

\* the three assignments of retryUpload
RetryReset(job) ==
  [job EXCEPT !.status = "pending", !.attempts = 0, !.nextRetryAt = Undefined]

\* retryUpload(photoId) up to its await
RetryUpload(p) ==
  /\ CallerMayCall
  /\ budget.retry > 0
  /\ FindJob(p) # 0
  /\ budget' = [budget EXCEPT !.retry = @ - 1]
  /\ Install([Cur EXCEPT !.jobs[FindJob(p)] = RetryReset(@),
                         !.micro = Append(@, Task("retry.updated", FindJob(p), p, FALSE,
                                                   Row(RetryReset(jobs[FindJob(p)]))))])
  /\ UNCHANGED <<isProcessing, photoStore, now>>

\* ---- continuations ----

Resumes(op) == microtasks # <<>> /\ Head(microtasks).op = op

\* the database as the call awaited by continuation t leaves it
Written(t) ==
  IF t.op = "remove.removed" THEN [jobStore EXCEPT ![t.photo] = NoRow]
  ELSE IF t.op \in {"upload.photo", "init.loaded"} THEN jobStore
  ELSE [jobStore EXCEPT ![t.photo] = t.row]

\* the first continuation leaves the microtask queue: its awaited call is done
Rest == [Cur EXCEPT !.micro = Tail(@), !.store = Written(Head(microtasks))]

\* addPhotoToQueue after `await this.saveJobToDatabase(job)`
AddSaved ==
  /\ Resumes("add.saved")
  /\ Install(IF ~isProcessing THEN processQueue(Rest, isProcessing) ELSE Rest)
  /\ UNCHANGED <<isProcessing, photoStore, now, budget>>

\* removePhotoFromQueue after `await this.removeJobFromDatabase(photoId)`
RemoveRemoved ==
  /\ Resumes("remove.removed")
  /\ Install([Rest EXCEPT !.active = @ \ {Head(microtasks).photo}])
  /\ UNCHANGED <<isProcessing, photoStore, now, budget>>

\* retryUpload after `await this.updateJobInDatabase(job)`
RetryUpdated ==
  /\ Resumes("retry.updated")
  /\ Install(processQueue(Rest, isProcessing))
  /\ UNCHANGED <<isProcessing, photoStore, now, budget>>

\* uploadPhoto after its first `await this.updateJobInDatabase(job)`:
\* notifyProgress, then getPhotoRecord reads photoStore and is awaited
UploadUpdated ==
  /\ Resumes("upload.updated")
  /\ LET t == Head(microtasks)
     IN Install(notifyProgress(
          [Rest EXCEPT
             !.jobs[t.job].unnotified = FALSE,
             !.micro = Append(@, Task("upload.photo", t.job, t.photo,
                                      t.photo \in photoStore, NoRow))],
          jobs[t.job].photoId, UploadProgress(jobs[t.job].photoId, 0, "uploading", NoError)))
  /\ UNCHANGED <<isProcessing, photoStore, now, budget>>

\* uploadPhoto after `await this.getPhotoRecord(job.photoId)`: without a
\* record it throws into its catch block, else the file and network calls
\* of the transfer start
UploadPhotoRecord ==
  /\ Resumes("upload.photo")
  /\ LET t == Head(microtasks)
     IN IF t.found
        THEN Install([Rest EXCEPT !.transfers = @ (+) SetToBag({t.job})])
        ELSE Install(handleUploadFailureStart(Rest, t.job, ErrNoRecord))
  /\ UNCHANGED <<isProcessing, photoStore, now, budget>>

\* the transfer of job j resolves: `job.status = 'completed'`, then the
\* second `await this.updateJobInDatabase(job)`
TransferSucceeds(j) ==
  /\ microtasks = <<>>
  /\ BagIn(j, transfers)
  /\ Install([Cur EXCEPT !.transfers = @ (-) SetToBag({j}),
                         !.jobs[j].status = "completed",
                         !.jobs[j].unnotified = TRUE,
                         !.micro = Append(@, Task("upload.completed", j, jobs[j].photoId, FALSE,
                                                  Row([jobs[j] EXCEPT !.status = "completed"])))])
  /\ UNCHANGED <<isProcessing, photoStore, now, budget>>

\* uploadPhoto after the second update: release the slot, notify, and drop
\* every queue entry with the job's id
UploadCompleted ==
  /\ Resumes("upload.completed")
  /\ LET t == Head(microtasks)
     IN Install(notifyProgress(
          [Rest EXCEPT
             !.active = @ \ {jobs[t.job].photoId},
             !.jobs[t.job].unnotified = FALSE,
             !.queue = SelectSeq(@, LAMBDA j : JobId(jobs[j]) # JobId(jobs[t.job]))],
          jobs[t.job].photoId, UploadProgress(jobs[t.job].photoId, 100, "completed", NoError)))
  /\ UNCHANGED <<isProcessing, photoStore, now, budget>>

\* the transfer of job j rejects with message msg: catch block of
\* uploadPhoto, handleUploadFailure up to its await
TransferFails(j, msg) ==
  /\ microtasks = <<>>
  /\ BagIn(j, transfers)
  /\ Install(handleUploadFailureStart([Cur EXCEPT !.transfers = @ (-) SetToBag({j})], j, msg))
  /\ UNCHANGED <<isProcessing, photoStore, now, budget>>

\* handleUploadFailure after `await this.updateJobInDatabase(job)`
FailUpdated ==
  /\ Resumes("fail.updated")
  /\ LET t == Head(microtasks)
     IN Install(processQueue(handleUploadFailureEnd(Rest, t.job), isProcessing))
  /\ UNCHANGED <<isProcessing, photoStore, now, budget>>

\* the clock advances; a drain of the microtask queue takes no time at the
\* clock's resolution
Tick ==
  /\ microtasks = <<>>
  /\ budget.tick > 0
  /\ budget' = [budget EXCEPT !.tick = @ - 1]
  /\ now' = now + TickMs
  /\ UNCHANGED <<jobs, uploadQueue, activeUploads, isProcessing, photoStore,
                 microtasks, transfers, jobStore, progressCallbacks,
                 unsubscribeFns, received, subscriber>>

Next ==
  \/ \E p \in Photos : StorePhotoRecord(p)
  \/ \E p \in Photos : AddPhotoToQueue(p)
  \/ \E p \in Photos : RemovePhotoFromQueue(p)
  \/ \E p \in Photos : RetryUpload(p)
  \/ AddSaved
  \/ RemoveRemoved
  \/ RetryUpdated
  \/ UploadUpdated
  \/ UploadPhotoRecord
  \/ \E j \in 1..Len(jobs) : TransferSucceeds(j)
  \/ UploadCompleted
  \/ \E j \in 1..Len(jobs), msg \in TransportErrors : TransferFails(j, msg)
  \/ FailUpdated
  \/ Tick

Spec == Init /\ [][Next]_vars

\* ---- cancellation runs: enqueue and cancel, no retry and no clock ----

InitCancel ==
  InitWith([photos |-> TwoPhotos, add |-> CancelJobs, retry |-> 0,
            remove |-> CancelRemoves, tick |-> 0, backlog |-> MaxBacklog], {})

NextCancel ==
  \/ \E p \in Photos : StorePhotoRecord(p)
  \/ \E p \in Photos : AddPhotoToQueue(p)
  \/ \E p \in Photos : RemovePhotoFromQueue(p)
  \/ AddSaved
  \/ RemoveRemoved
  \/ UploadUpdated
  \/ UploadPhotoRecord
  \/ \E j \in 1..Len(jobs) : TransferSucceeds(j)
  \/ UploadCompleted
  \/ \E j \in 1..Len(jobs), msg \in TransportErrors : TransferFails(j, msg)
  \/ FailUpdated

SpecCancel == InitCancel /\ [][NextCancel]_vars

\* ---- drain runs: distinct photos with stored records, transfers succeed ----

\* addPhotoToQueue for a photo that was not enqueued before
EnqueueNew(p) ==
  /\ \A j \in 1..Len(jobs) : jobs[j].photoId # p
  /\ AddPhotoToQueue(p)

InitDrain ==
  InitWith([photos |-> AllPhotos, add |-> Cardinality(AllPhotos), retry |-> 0,
            remove |-> 0, tick |-> 0, backlog |-> DrainBacklog], AllPhotos)

\* the steps the JavaScript runtime takes by itself once a continuation waits
RunMicrotask ==
  \/ AddSaved
  \/ RemoveRemoved
  \/ RetryUpdated
  \/ UploadUpdated
  \/ UploadPhotoRecord
  \/ UploadCompleted
  \/ FailUpdated

NextDrain ==
  \/ \E p \in Photos : EnqueueNew(p)
  \/ AddSaved
  \/ UploadUpdated
  \/ UploadPhotoRecord
  \/ \E j \in 1..Len(jobs) : TransferSucceeds(j)
  \/ UploadCompleted

SpecDrain ==
  /\ InitDrain
  /\ [][NextDrain]_vars
  /\ WF_vars(RunMicrotask)
  /\ WF_vars(\E j \in 1..Len(jobs) : TransferSucceeds(j))

\* ---- automatic-retry runs: no caller retry or cancel, a job's transfer ----
\* ---- fails transiently at most AutoFailures times, then succeeds       ----

TransientFailure(j) ==
  /\ jobs[j].failures < AutoFailures
  /\ TransferFails(j, ErrHttp)

InitAuto ==
  InitWith([photos |-> TwoPhotos, add |-> AutoJobs, retry |-> 0,
            remove |-> 0, tick |-> AutoTicks, backlog |-> MaxBacklog], TwoPhotos)

NextAuto ==
  \/ \E p \in Photos : EnqueueNew(p)
  \/ AddSaved
  \/ UploadUpdated
  \/ UploadPhotoRecord
  \/ \E j \in 1..Len(jobs) : TransferSucceeds(j)
  \/ UploadCompleted
  \/ \E j \in 1..Len(jobs) : TransientFailure(j)
  \/ FailUpdated
  \/ Tick

SpecAuto ==
  /\ InitAuto
  /\ [][NextAuto]_vars
  /\ WF_vars(RunMicrotask)
  /\ WF_vars(\E j \in 1..Len(jobs) : TransferSucceeds(j) \/ TransientFailure(j))
  /\ WF_vars(Tick)

\* ---- failing-transport runs: stored records, distinct photos, every ----
\* ---- transfer is rejected with an HTTP error                         ----

InitTransient ==
  InitWith([photos |-> TwoPhotos, add |-> TransientJobs, retry |-> TransientRetries,
            remove |-> 0, tick |-> 0, backlog |-> MaxBacklog], TwoPhotos)

NextTransient ==
  \/ \E p \in Photos : EnqueueNew(p)
  \/ \E p \in Photos : RetryUpload(p)
  \/ AddSaved
  \/ RetryUpdated
  \/ UploadUpdated
  \/ UploadPhotoRecord
  \/ \E j \in 1..Len(jobs) : TransferFails(j, ErrHttp)
  \/ FailUpdated

SpecTransient == InitTransient /\ [][NextTransient]_vars

\* ---- ordering runs: one stored record, repeated photos, a caller retry, ----
\* ---- transfers that fail                                               ----

InitOrder ==
  InitWith([photos |-> TwoPhotos, add |-> OrderJobs, retry |-> OrderRetries,
            remove |-> 0, tick |-> OrderTicks, backlog |-> OrderBacklog], {"p1"})

NextOrder ==
  \/ \E p \in Photos : AddPhotoToQueue(p)
  \/ \E p \in Photos : RetryUpload(p)
  \/ AddSaved
  \/ RetryUpdated
  \/ UploadUpdated
  \/ UploadPhotoRecord
  \/ \E j \in 1..Len(jobs) : TransferFails(j, ErrHttp)
  \/ FailUpdated
  \/ Tick

SpecOrder == InitOrder /\ [][NextOrder]_vars

\* ---- notification runs: one photo with a stored record ----

InitNotify ==
  InitWith([photos |-> {"p1"}, add |-> NotifyJobs, retry |-> NotifyRetries,
            remove |-> NotifyRemoves, tick |-> 0, backlog |-> MaxBacklog], {"p1"})

NextNotify ==
  \/ \E p \in Photos : AddPhotoToQueue(p)
  \/ \E p \in Photos : RemovePhotoFromQueue(p)
  \/ \E p \in Photos : RetryUpload(p)
  \/ AddSaved
  \/ RemoveRemoved
  \/ RetryUpdated
  \/ UploadUpdated
  \/ UploadPhotoRecord
  \/ \E j \in 1..Len(jobs) : TransferSucceeds(j)
  \/ UploadCompleted
  \/ \E j \in 1..Len(jobs) : TransferFails(j, ErrHttp)
  \/ FailUpdated

SpecNotify == InitNotify /\ [][NextNotify]_vars

\* ---- observer runs: one photo with a stored record, two observers ----

\* subscribeToProgress(photoId, callback) by observer o: the callback
\* replaces the one stored for the photo id, an unsubscribe function is
\* returned
Subscribe(p, o) ==
  /\ CallerMayCall
  /\ budget.subscribe > 0
  /\ budget' = [budget EXCEPT !.subscribe = @ - 1]
  /\ Install([Cur EXCEPT !.callbacks[p] = o,
                         !.unsubs = @ \cup {<<p, o>>},
                         !.subscriber[p] = o])
  /\ UNCHANGED <<isProcessing, photoStore, now>>

\* observer o calls the function subscribeToProgress(p, .) returned to it:
\* `this.progressCallbacks.delete(photoId)`
Unsubscribe(p, o) ==
  /\ CallerMayCall
  /\ <<p, o>> \in unsubscribeFns
  /\ budget.unsubscribe > 0
  /\ budget' = [budget EXCEPT !.unsubscribe = @ - 1]
  /\ Install([Cur EXCEPT !.callbacks[p] = NoObserver,
                         !.subscriber[p] = IF @ = o THEN NoObserver ELSE @])
  /\ UNCHANGED <<isProcessing, photoStore, now>>

InitProgress ==
  InitWith([photos |-> {"p1"}, add |-> ProgressJobs, retry |-> ProgressRetries,
            remove |-> 0, tick |-> 0, backlog |-> MaxBacklog,
            subscribe |-> ProgressSubscribes,
            unsubscribe |-> ProgressUnsubscribes], {"p1"})

NextProgress ==
  \/ \E p \in Photos : AddPhotoToQueue(p)
  \/ \E p \in Photos : RetryUpload(p)
  \/ \E p \in Photos, o \in Observers : Subscribe(p, o)
  \/ \E p \in Photos, o \in Observers : Unsubscribe(p, o)
  \/ AddSaved
  \/ RetryUpdated
  \/ UploadUpdated
  \/ UploadPhotoRecord
  \/ \E j \in 1..Len(jobs) : TransferSucceeds(j)
  \/ UploadCompleted
  \/ \E j \in 1..Len(jobs) : TransferFails(j, ErrHttp)
  \/ FailUpdated

SpecProgress == InitProgress /\ [][NextProgress]_vars

\* ---- start-up runs: initialize called before, between and after enqueues ----

\* initialize() up to `await this.getPendingJobs()`
Initialize ==
  /\ CallerMayCall
  /\ budget.init > 0
  /\ budget' = [budget EXCEPT !.init = @ - 1]
  /\ Install([Cur EXCEPT !.micro = Append(@, Task("init.loaded", 0, NoPhoto, FALSE, NoRow))])
  /\ UNCHANGED <<isProcessing, photoStore, now>>

\* initialize after its await: `this.uploadQueue = pendingJobs`, then
\* processQueue
InitLoaded ==
  /\ Resumes("init.loaded")
  /\ Install(processQueue([Rest EXCEPT !.queue = getPendingJobs], isProcessing))
  /\ UNCHANGED <<isProcessing, photoStore, now, budget>>

InitStartup ==
  InitWith([photos |-> TwoPhotos, add |-> StartupJobs, retry |-> 0, remove |-> 0,
            tick |-> 0, backlog |-> StartupBacklog, init |-> StartupCalls], {"p1"})

NextStartup ==
  \/ Initialize
  \/ InitLoaded
  \/ \E p \in Photos : AddPhotoToQueue(p)
  \/ AddSaved
  \/ UploadUpdated
  \/ UploadPhotoRecord
  \/ \E j \in 1..Len(jobs) : TransferSucceeds(j)
  \/ UploadCompleted
  \/ \E j \in 1..Len(jobs) : TransferFails(j, ErrHttp)
  \/ FailUpdated

SpecStartup == InitStartup /\ [][NextStartup]_vars

\* ---- failing-store runs: stored records, distinct photos, a database ----
\* ---- write may reject instead of resolving                           ----

\* the database write awaited by the first continuation, which is at op,
\* rejects
WriteRejects(op) ==
  /\ Resumes(op)
  /\ budget.fault > 0
  /\ budget' = [budget EXCEPT !.fault = @ - 1]

\* the first continuation leaves the microtask queue with its write
\* rejected: the database keeps what it held
Rejected == [Cur EXCEPT !.micro = Tail(@)]

\* addPhotoToQueue when `await this.saveJobToDatabase(job)` rejects: the
\* catch block logs the error
SaveRejected ==
  /\ WriteRejects("add.saved")
  /\ Install(Rejected)
  /\ UNCHANGED <<isProcessing, photoStore, now>>

\* uploadPhoto when its first `await this.updateJobInDatabase(job)` rejects:
\* the catch block calls handleUploadFailure
DispatchUpdateRejected ==
  /\ WriteRejects("upload.updated")
  /\ Install(handleUploadFailureStart(Rejected, Head(microtasks).job, ErrWrite))
  /\ UNCHANGED <<isProcessing, photoStore, now>>

\* uploadPhoto when its second `await this.updateJobInDatabase(job)` rejects
CompletionUpdateRejected ==
  /\ WriteRejects("upload.completed")
  /\ Install(handleUploadFailureStart(Rejected, Head(microtasks).job, ErrWrite))
  /\ UNCHANGED <<isProcessing, photoStore, now>>

\* handleUploadFailure when `await this.updateJobInDatabase(job)` rejects:
\* the error leaves handleUploadFailure and uploadPhoto, nobody catches it
FailureUpdateRejected ==
  /\ WriteRejects("fail.updated")
  /\ Install(Rejected)
  /\ UNCHANGED <<isProcessing, photoStore, now>>

InitFault ==
  InitWith([photos |-> TwoPhotos, add |-> FaultJobs, retry |-> 0, remove |-> 0,
            tick |-> 0, backlog |-> MaxBacklog, fault |-> FaultWrites], TwoPhotos)

NextFault ==
  \/ \E p \in Photos : EnqueueNew(p)
  \/ AddSaved
  \/ SaveRejected
  \/ UploadUpdated
  \/ DispatchUpdateRejected
  \/ UploadPhotoRecord
  \/ \E j \in 1..Len(jobs) : TransferSucceeds(j)
  \/ UploadCompleted
  \/ CompletionUpdateRejected
  \/ \E j \in 1..Len(jobs) : TransferFails(j, ErrHttp)
  \/ FailUpdated
  \/ FailureUpdateRejected

SpecFault == InitFault /\ [][NextFault]_vars

\* ---- properties ----

JobRefs == 1..Len(jobs)
QueuePositions == 1..Len(uploadQueue)
QueuedJob(i) == jobs[uploadQueue[i]]

\* the failure classes of the specification's taxonomy: a missing record or
\* an empty file cannot be cured by waiting, an HTTP 503 can
IsPermanent(msg) == msg \in {ErrNoRecord, ErrEmptyFile}
IsTransient(msg) == msg = ErrHttp

TypeOK ==
  /\ \A j \in JobRefs : jobs[j].status \in {"pending", "uploading", "completed", "failed"}
  /\ isProcessing = FALSE

\* C1: the number of jobs in the active queue with status 'uploading' is at
\* most MAX_CONCURRENT_UPLOADS in every reachable state.
C1_UploadingAtMostC ==
  Cardinality({i \in QueuePositions : QueuedJob(i).status = "uploading"})
    <= MAX_CONCURRENT_UPLOADS

\* C2: the number of transfers in progress (started, neither resolved nor
\* rejected) never exceeds MAX_CONCURRENT_UPLOADS, a cancelled job's running
\* transfer included.
C2_TransfersAtMostC ==
  BagCardinality(transfers) <= MAX_CONCURRENT_UPLOADS

\* C3: for every photoId at most one job of the queue has status 'uploading'.
C3_OneUploadingPerPhoto ==
  \A i, k \in QueuePositions :
    /\ i # k
    /\ QueuedJob(i).status = "uploading"
    /\ QueuedJob(k).status = "uploading"
    => QueuedJob(i).photoId # QueuedJob(k).photoId

\* C4: enqueue is idempotent per photo: the queue never holds two jobs with
\* the same photoId (job id).
C4_EnqueueIdempotent ==
  \A i, k \in QueuePositions :
    i # k => JobId(QueuedJob(i)) # JobId(QueuedJob(k))

\* C5: when every photo has been enqueued once, every transfer succeeds and
\* no retry or cancel is issued, a run that has come to rest (no continuation
\* waiting, no transfer running) has every job completed.
C5_AllCompleted ==
  (budget.add = 0 /\ microtasks = <<>> /\ transfers = EmptyBag)
    => \A j \in JobRefs : jobs[j].status = "completed"

\* C6: a job is 'failed' only with its attempts at maxAttempts or after a
\* permanent failure; after a transient failure with attempts left it is
\* 'pending' with nextRetryAt in the future.
C6_FailedOnlyWhenExhaustedOrPermanent ==
  \A j \in JobRefs :
    jobs[j].status = "failed"
      => jobs[j].attempts >= jobs[j].maxAttempts \/ IsPermanent(jobs[j].lastError)

\* C7: without any caller retry, a job whose transfer fails transiently
\* fewer than maxAttempts times and then succeeds is dispatched again after
\* each backoff and ends 'completed' with attempts = failures + 1: a job
\* with no backoff left to wait for is eventually completed, or fails again
\* and waits for its next backoff.
BackoffElapsed(j) ==
  jobs[j].nextRetryAt = Undefined \/ jobs[j].nextRetryAt <= now

CompletedAfterRetries(j) ==
  jobs[j].status = "completed" /\ jobs[j].attempts = jobs[j].failures + 1

C7_AutomaticRetry ==
  \A j \in 1..AutoJobs :
    [](j \in JobRefs /\ BackoffElapsed(j) =>
         <>(j \in JobRefs /\ (CompletedAfterRetries(j) \/ ~BackoffElapsed(j))))

C9_AttemptsWithinBudget ==
  \A j \in JobRefs :
    0 <= jobs[j].attempts /\ jobs[j].attempts <= jobs[j].maxAttempts

\* a job that failed, was retried by the caller and is being uploaded again
C9_Witness ==
  \E j \in JobRefs :
    /\ jobs[j].failures >= 1
    /\ jobs[j].status = "uploading"
    /\ jobs[j].attempts = 1

\* C10: a permanent failure of the transfer on a job's first attempt leaves
\* the job with attempts = 1, status 'failed' and no nextRetryAt.
C10_PermanentFailureIsTerminal ==
  \A j \in JobRefs :
    /\ jobs[j].failures = 1
    /\ jobs[j].status = "failed"
    /\ jobs[j].lastError \in TransportErrors
    /\ IsPermanent(jobs[j].lastError)
    => jobs[j].attempts = 1 /\ jobs[j].nextRetryAt = Undefined

\* C11: while the transport fails transiently and no retryUpload has been
\* called, a job is 'failed' only once it has made maxAttempts attempts
C11_FailedAfterMaxAttempts ==
  budget.retry = TransientRetries =>
    \A j \in JobRefs :
      jobs[j].status = "failed" => jobs[j].attempts = jobs[j].maxAttempts

\* C12: after k transient failures over its whole life a job's priority is
\* min(1 + k, PRIORITY_CAP)
C12_PriorityCountsFailures ==
  \A j \in JobRefs :
    jobs[j].priority = Min(INITIAL_PRIORITY + jobs[j].failures, PRIORITY_CAP)

\* the service's state after the step
CurNext ==
  [jobs |-> jobs', queue |-> uploadQueue', active |-> activeUploads',
   micro |-> microtasks', transfers |-> transfers', store |-> jobStore',
   callbacks |-> progressCallbacks', unsubs |-> unsubscribeFns',
   received |-> received', subscriber |-> subscriber']

\* C13: no step lowers the priority of a job that is still referenced after
\* it, and every priority is within 1..PRIORITY_CAP
C13_PriorityNeverDecreases ==
  [][/\ \A j \in JobRefs :
          Referenced(CurNext, j) => jobs'[j].priority >= jobs[j].priority
     /\ \A j \in 1..Len(jobs') : jobs'[j].priority \in 1..PRIORITY_CAP]_vars

\* retryUpload was called on a job whose priority a failure had raised
C13_Witness ==
  \E j \in JobRefs :
    /\ jobs[j].priority > INITIAL_PRIORITY
    /\ jobs[j].status = "pending"
    /\ Resumes("retry.updated")

\* C14: retryUpload on a 'failed' job leaves it 'pending' with attempts = 0
\* and no nextRetryAt, and among the candidates of getNextJob
C14_RetryMakesEligible ==
  [][\A p \in AllPhotos :
       (p \in Photos /\ RetryUpload(p) /\ jobs[FindJob(p)].status = "failed") =>
         /\ jobs'[FindJob(p)].status = "pending"
         /\ jobs'[FindJob(p)].attempts = 0
         /\ jobs'[FindJob(p)].nextRetryAt = Undefined
         /\ \E i \in Candidates(CurNext) : uploadQueue'[i] = FindJob(p)]_vars

\* C15: retryUpload on a job that is not 'failed' changes neither the job
\* nor the queue nor the set of in-flight uploads
C15_RetryOfNonFailedIsNoOp ==
  [][\A p \in AllPhotos :
       (p \in Photos /\ RetryUpload(p) /\ jobs[FindJob(p)].status # "failed") =>
         /\ jobs' = jobs
         /\ uploadQueue' = uploadQueue
         /\ activeUploads' = activeUploads]_vars

\* the job was taken out of the queue while its transfer was running
RemovedWhileUploading(j) ==
  /\ ~InQueue(Cur, j)
  /\ jobs[j].status = "uploading"
  /\ BagIn(j, transfers)

\* C16: once a job was removed from the queue during its upload, no step
\* changes a field of it
C16_ResultDiscardedAfterRemove ==
  [][\A j \in JobRefs : RemovedWhileUploading(j) => jobs'[j] = jobs[j]]_vars

\* a continuation that calls processQueue is the next to run
PassWaiting ==
  \/ Resumes("add.saved") /\ ~isProcessing
  \/ Resumes("retry.updated")
  \/ Resumes("fail.updated")

\* the state processQueue will start from
PrePass ==
  IF Resumes("fail.updated")
  THEN handleUploadFailureEnd(Rest, Head(microtasks).job)
  ELSE Rest

\* job k ranks strictly above job j
Outranks(s, k, j) ==
  \/ s.jobs[k].priority > s.jobs[j].priority
  \/ s.jobs[k].priority = s.jobs[j].priority /\ s.jobs[k].createdAt < s.jobs[j].createdAt

\* every job the pass started from s dispatches is outranked by no candidate
\* of the moment it is dispatched
RECURSIVE PassPicksMaximal(_)
PassPicksMaximal(s) ==
  IF ~(Len(s.queue) > 0 /\ Cardinality(s.active) < MAX_CONCURRENT_UPLOADS)
  THEN TRUE
  ELSE LET j == getNextJob(s)
       IN IF j = 0 \/ (s.jobs[j].nextRetryAt # Undefined /\ s.jobs[j].nextRetryAt > now)
          THEN TRUE
          ELSE /\ \A i \in Candidates(s) : ~Outranks(s, s.queue[i], j)
               /\ PassPicksMaximal(
                    uploadPhotoStart([s EXCEPT !.active = @ \cup {s.jobs[j].photoId}], j))

QueuePos(j) == CHOOSE i \in QueuePositions : uploadQueue[i] = j

C17_QueuedJobsArePersisted ==
  \A i \in QueuePositions : jobStore[JobId(QueuedJob(i))] = Row(QueuedJob(i))

\* the step starts the upload of job j
Selected(j) == jobs[j].status = "pending" /\ jobs'[j].status = "uploading"

\* C18: when notifyProgress is called for a new status the database holds
\* that status, and no job is dispatched while a status written to it has
\* not been notified, unless the dispatching step makes that notification
\* before its pass
C18_PersistThenNotifyThenSelect ==
  [][/\ UploadUpdated => jobStore'[Head(microtasks).photo].status = "uploading"
     /\ UploadCompleted => jobStore'[Head(microtasks).photo].status = "completed"
     /\ FailUpdated => jobStore'[Head(microtasks).photo].status = "failed"
     /\ \A j \in JobRefs :
          (Selected(j) /\ jobs[j].unnotified) =>
            (Resumes("fail.updated") /\ Head(microtasks).job = j)]_vars

\* in state s the upload of job j has started and its transfer has neither
\* resolved nor rejected
UploadRunning(s, j) ==
  \/ BagIn(j, s.transfers)
  \/ \E i \in 1..Len(s.micro) :
       s.micro[i].job = j /\ s.micro[i].op \in {"upload.updated", "upload.photo"}

\* C21: a job is not dispatched while an upload of it is still running, and
\* a dispatch raises its attempts by exactly 1
C21_NoDoubleDispatch ==
  [][\A j \in JobRefs :
       Selected(j) => /\ ~UploadRunning(Cur, j)
                      /\ jobs'[j].attempts = jobs[j].attempts + 1]_vars

\* C25: a job carries a lastError only while it is 'failed', or 'pending'
\* with a nextRetryAt
C25_LastErrorOnlyWhileFailed ==
  \A j \in JobRefs :
    jobs[j].lastError # NoError =>
      \/ jobs[j].status = "failed"
      \/ jobs[j].status = "pending" /\ jobs[j].nextRetryAt # Undefined

\* the upload coroutine of job j has not ended
CoroutineAlive(s, j) ==
  \/ UploadRunning(s, j)
  \/ \E i \in 1..Len(s.micro) :
       s.micro[i].job = j /\ s.micro[i].op \in {"upload.completed", "fail.updated"}

\* C27: failure handling finds attempts >= 1, so a job it has marked
\* 'failed' has attempts >= 1, and every photoId in activeUploads belongs
\* to an upload that will still release it
C27_FailureHandlingCompletes ==
  /\ \A j \in JobRefs : jobs[j].status = "failed" => jobs[j].attempts >= 1
  /\ \A p \in activeUploads :
       \E j \in JobRefs : jobs[j].photoId = p /\ CoroutineAlive(Cur, j)

\* C28: a photoId is in activeUploads exactly when a job of the queue with
\* that photoId is 'uploading', so the two counts agree
C28_ActiveIffUploading ==
  /\ \A p \in AllPhotos :
       p \in activeUploads <=>
         \E i \in QueuePositions :
           QueuedJob(i).photoId = p /\ QueuedJob(i).status = "uploading"
  /\ Cardinality({i \in QueuePositions : QueuedJob(i).status = "uploading"})
       = Cardinality(activeUploads)

\* C29: a job leaves the queue only by the completion of its own upload or
\* by a removePhotoFromQueue call for its photo, and no step takes a
\* photoId out of activeUploads while a job of the queue with that photoId
\* has its upload running
C29_OnlyOwnCompletionOrCancel ==
  [][/\ \A j \in JobRefs :
          (InQueue(Cur, j) /\ ~InQueue(CurNext, j)) =>
            \/ UploadCompleted /\ Head(microtasks).job = j
            \/ RemovePhotoFromQueue(jobs[j].photoId)
     /\ \A p \in activeUploads \ activeUploads' :
          \A j \in JobRefs :
            (InQueue(CurNext, j) /\ jobs[j].photoId = p) => ~UploadRunning(CurNext, j)]_vars

\* C26: the unsubscribe function returned to an observer removes that
\* observer's registration only: when another observer's callback is
\* stored for the photo id, it is still stored after the call
C26_UnsubscribeRemovesOwnRegistration ==
  [][\A p \in AllPhotos, o \in Observers :
       (Unsubscribe(p, o) /\ progressCallbacks[p] # o) =>
          progressCallbacks'[p] = progressCallbacks[p]]_vars

\* the step calls notifyProgress for photo p
Notifies(p) ==
  /\ UploadUpdated \/ UploadCompleted \/ FailUpdated
  /\ Head(microtasks).photo = p

\* C22: every notification of a transition is delivered to the observer
\* that subscribed last for the photo id, once, and to no other observer
C22_DeliveredToLastSubscriber ==
  [][\A p \in AllPhotos :
       Notifies(p) =>
         \A o \in Observers :
           Len(received'[o]) = Len(received[o]) + (IF o = subscriber[p] THEN 1 ELSE 0)]_vars

\* C23: when initialize has loaded, every job the database holds as
\* 'uploading' is in the queue as 'pending' without nextRetryAt, and no job
\* of the queue is 'uploading' without a running upload
C23_UploadingReloadedAsPending ==
  [][InitLoaded =>
       /\ \A p \in AllPhotos :
            jobStore'[p].status = "uploading" =>
              \E j \in JobRefs :
                /\ InQueue(CurNext, j)
                /\ jobs'[j].photoId = p
                /\ jobs'[j].status = "pending"
                /\ jobs'[j].nextRetryAt = Undefined
       /\ \A j \in JobRefs :
            (InQueue(CurNext, j) /\ jobs'[j].status = "uploading") =>
              UploadRunning(CurNext, j)]_vars

\* C30: every job that is in the queue when initialize resumes from its
\* await, pending or uploading, is in the queue after initialize
C30_InitializeKeepsJobs ==
  [][InitLoaded => \A j \in JobRefs : InQueue(Cur, j) => InQueue(CurNext, j)]_vars

\* the step is one in which a database write rejects
StoreRejects ==
  \/ SaveRejected
  \/ DispatchUpdateRejected
  \/ CompletionUpdateRejected
  \/ FailureUpdateRejected

\* status and attempts of the job of the queue for photo p in state s, no
\* row when the queue has none
InMemoryRow(s, p) ==
  IF \E j \in 1..Len(s.jobs) : InQueue(s, j) /\ s.jobs[j].photoId = p
  THEN Row(s.jobs[CHOOSE j \in 1..Len(s.jobs) : InQueue(s, j) /\ s.jobs[j].photoId = p])
  ELSE NoRow

\* no job but the one of the rejected write is changed by the step
OthersUnaffected ==
  \A j \in JobRefs :
    j # Head(microtasks).job =>
      /\ jobs'[j] = jobs[j]
      /\ InQueue(Cur, j) <=> InQueue(CurNext, j)

\* C24: when a database write rejects, the job it was for is left in memory
\* with the status and attempts of its last written row (not in the queue
\* when it has none), and no other job is changed
C24_FailedWriteNotCommitted ==
  [][StoreRejects =>
       /\ InMemoryRow(CurNext, Head(microtasks).photo) = jobStore[Head(microtasks).photo]
       /\ OthersUnaffected]_vars

====
